---- MODULE Spec2Model ----
(***************************************************************************)
(* Model of src/fprime_gds/executables/fprime_cli.py: the F' GDS command   *)
(* line front end.  One behaviour is one process invocation of main():     *)
(* create_parser registers the three subcommand injectors, argcomplete     *)
(* either answers a shell completion request and exits or returns, then    *)
(* parse_args parses and validates, and main calls the selected function.  *)
(*                                                                         *)
(* An argparse.Namespace is a function from attribute names to values; an  *)
(* attribute the namespace does not have is outside its DOMAIN (hasattr).  *)
(* Python's None is the value None below.  Command names and prefixes are  *)
(* sequences of characters, so that str.startswith is computed.            *)
(***************************************************************************)
EXTENDS Integers, Sequences, FiniteSets, TLC

\* Bounds of the model: length of a command name / prefix, and number of
\* command names in a dictionary's command-name index.
MaxNameLen == 2
MaxIndexLen == 2

Alphabet == {"E", "V"}

None == "None"
DictPath == "dict.xml"
CwdDictPath == "./TopologyAppDictionary.xml"
UserConfig == "user.ini"
Cwd == "/cwd"

EmptyNamespace == [a \in {} |-> None]

\* Python truthiness of the values an attribute takes here (None, "", str).
Truthy(v) == v \notin {None, ""}

Injectors ==
  {"ChannelsSubparserInjector", "CommandSubparserInjector", "EventsSubparserInjector"}

\* The registration order written in create_parser.
SourceOrder ==
  <<"ChannelsSubparserInjector", "CommandSubparserInjector", "EventsSubparserInjector">>

Orders == {o \in [1..3 -> Injectors] : \A i, j \in 1..3 : i # j => o[i] # o[j]}

----------------------------------------------------------------------------
(* Shared argument groups.  The three builders live in fprime_gds.executables.cli; *)
(* a group is the set of its specifiers (the keys of get_arguments()), each  *)
(* a sequence of flags.                                                      *)

ConnectionArguments == {<<"--dictionary">>, <<"--config">>}

SearchArguments == {<<"-l", "--list">>, <<"-i", "--ids">>}

TimeoutSpecifiers ==
  {<<"-t", "--timeout">>, <<"--timeout", "-t">>, <<"-t">>, <<"--timeout">>}

OtherRetrievalSpecifiers == {<<"-j", "--json">>, <<"-n", "--num">>}

\* What RetrievalArgumentsParser(command_name).get_arguments() may return:
\* at most one timeout specifier, in any spelling, and any other specifiers.
RetrievalGroups ==
  {t \cup o : t \in {{}} \cup {{s} : s \in TimeoutSpecifiers},
              o \in SUBSET OtherRetrievalSpecifiers}

\* The group of the real RetrievalArgumentsParser.
CanonicalRetrieval == {<<"-t", "--timeout">>, <<"-j", "--json">>}

\* Mutant: the exclusion list is not consulted.
add_retrieval_arguments_no_exclude(retrieval_parser_args, exclude) ==
  {arg \in retrieval_parser_args : arg[1] \notin {}}

add_retrieval_arguments(retrieval_parser_args, exclude) ==
  {arg \in retrieval_parser_args : arg[1] \notin exclude}

add_arguments(cls, retrieval_parser_args) ==
  IF cls = "CommandSubparserInjector"
  THEN ConnectionArguments \cup {<<"command_name">>, <<"--arguments">>}
         \cup SearchArguments
         \cup add_retrieval_arguments(retrieval_parser_args, {"-t", "--timeout"})
  ELSE ConnectionArguments \cup SearchArguments
         \cup add_retrieval_arguments(retrieval_parser_args, {})

create_subparser(cls) ==
  CASE cls = "ChannelsSubparserInjector" -> "channels"
    [] cls = "CommandSubparserInjector" -> "command-send"
    [] cls = "EventsSubparserInjector" -> "events"

\* Mutant: func is set as a default of the parent, so the last injected
\* class's command_func is the func of every subcommand.
inject_subparser_parent_defaults(cls, table, retrieval_parser_args) ==
  LET new == (create_subparser(cls) :>
                [specifiers |-> add_arguments(cls, retrieval_parser_args),
                 defaults |-> ("func" :> cls) @@ ("validate" :> cls)]) @@ table
  IN [n \in DOMAIN new |->
        [specifiers |-> new[n].specifiers,
         defaults |-> ("func" :> cls) @@ new[n].defaults]]

\* The subcommand table after cls has been injected: its subparser holds the
\* composed specifiers and the defaults func/validate of cls.
inject_subparser(cls, table, retrieval_parser_args) ==
  (create_subparser(cls) :>
     [specifiers |-> add_arguments(cls, retrieval_parser_args),
      defaults |-> ("func" :> cls) @@ ("validate" :> cls)]) @@ table

----------------------------------------------------------------------------
(* Dictionary resolution and validation *)

\* Mutant: no deepcopy, the edits land in the caller's namespace.
get_dictionary_path_no_copy(current_args) ==
  LET args1 == IF "dictionary" \notin DOMAIN current_args
               THEN ("dictionary" :> None) @@ current_args ELSE current_args
      args2 == ("deploy" :> Cwd) @@ args1
      args3 == ("config" :> None) @@ args2
  IN [raised |-> FALSE, value |-> args3["dictionary"], current_args |-> args3]

\* deepcopy, then edits of the copy only; the caller's namespace is returned
\* in current_args as the call leaves it.
get_dictionary_path(current_args) ==
  LET args0 == current_args
      args1 == IF "dictionary" \notin DOMAIN args0
               THEN ("dictionary" :> None) @@ args0 ELSE args0
      args2 == ("deploy" :> Cwd) @@ args1
      args3 == ("config" :> None) @@ args2
  IN [raised |-> FALSE, value |-> args3["dictionary"], current_args |-> current_args]

add_valid_dictionary(args) ==
  LET r == get_dictionary_path(args)
  IN IF r.raised
     THEN [raised |-> TRUE, args |-> r.current_args,
           log |-> <<[input |-> args, raised |-> TRUE, value |-> None]>>]
     ELSE [raised |-> FALSE, args |-> ("dictionary" :> r.value) @@ r.current_args,
           log |-> <<[input |-> args, raised |-> FALSE, value |-> r.value]>>]

\* parser.error(message): prints the message and exits with status 2.
parser_error(message, args, log) ==
  [exits |-> TRUE, status |-> 2, error |-> message, args |-> args, log |-> log]

Base_validate_args(args) ==
  LET r == add_valid_dictionary(args)
  IN IF r.raised
     THEN parser_error("No valid project dictionary found", r.args, r.log)
     ELSE [exits |-> FALSE, status |-> 0, error |-> "", args |-> r.args, log |-> r.log]

\* Mutant: requires both the command name and the list flag.
Command_validate_args_both(args) ==
  IF ~(Truthy(args["command_name"]) /\ args["is_printing_list"])
  THEN parser_error("One of command-name or --list is required", args, <<>>)
  ELSE Base_validate_args(args)

Command_validate_args(args) ==
  IF ~(Truthy(args["command_name"]) \/ args["is_printing_list"])
  THEN parser_error("One of command-name or --list is required", args, <<>>)
  ELSE Base_validate_args(args)

\* args.validate(parser, args): the validate_args bound to the class.
validate(cls, args) ==
  IF cls = "CommandSubparserInjector"
  THEN Command_validate_args(args) ELSE Base_validate_args(args)

----------------------------------------------------------------------------
(* Root dispatcher *)

\* parser.parse_args(arguments): without a subcommand the namespace holds
\* func = None only; with one, the attributes parsed from the command line
\* and the selected subparser's defaults (func, validate).
parser_parse_args(table, arguments) ==
  IF arguments.subcommand = None
  THEN ("func" :> None)
  ELSE table[arguments.subcommand].defaults @@ arguments.given

\* Mutant: the validate step is left out.
parse_args_no_validate(table, arguments) ==
  LET args == parser_parse_args(table, arguments)
  IN IF ~Truthy(args["func"])
     THEN [help |-> TRUE, exits |-> TRUE, status |-> 0, error |-> "",
           parsed |-> args, args |-> args, events |-> <<>>, log |-> <<>>]
     ELSE [help |-> FALSE, exits |-> FALSE, status |-> 0, error |-> "",
           parsed |-> args, args |-> args, events |-> <<>>, log |-> <<>>]

\* Mutant: a missing subcommand is reported as a usage error.
parse_args_subcommand_required(table, arguments) ==
  LET args == parser_parse_args(table, arguments)
  IN IF ~Truthy(args["func"])
     THEN [help |-> FALSE, exits |-> TRUE, status |-> 2,
           error |-> "the following arguments are required: func",
           parsed |-> args, args |-> args, events |-> <<>>, log |-> <<>>]
     ELSE LET v == validate(args["validate"], args)
          IN [help |-> FALSE, exits |-> v.exits, status |-> v.status,
              error |-> v.error, parsed |-> args, args |-> v.args,
              events |-> IF v.exits THEN <<"validate">>
                         ELSE <<"validate", "validate_return">>,
              log |-> v.log]

\* parse_args(parser, arguments).  events records, in order, the steps taken.
parse_args(table, arguments) ==
  LET args == parser_parse_args(table, arguments)
  IN IF ~Truthy(args["func"])
     THEN [help |-> TRUE, exits |-> TRUE, status |-> 0, error |-> "",
           parsed |-> args, args |-> args, events |-> <<>>, log |-> <<>>]
     ELSE LET v == validate(args["validate"], args)
          IN [help |-> FALSE, exits |-> v.exits, status |-> v.status,
              error |-> v.error, parsed |-> args, args |-> v.args,
              events |-> IF v.exits THEN <<"validate">>
                         ELSE <<"validate", "validate_return">>,
              log |-> v.log]

\* command_func of each injector: the module it imports and the handler it calls.
command_func(cls) ==
  CASE cls = "ChannelsSubparserInjector" ->
         [module |-> "fprime_gds.common.gds_cli.channels", handler |-> "ChannelsCommand"]
    [] cls = "CommandSubparserInjector" ->
         [module |-> "fprime_gds.common.gds_cli.command_send", handler |-> "CommandSendCommand"]
    [] cls = "EventsSubparserInjector" ->
         [module |-> "fprime_gds.common.gds_cli.events", handler |-> "EventsCommand"]

----------------------------------------------------------------------------
(* Completion provider *)

Strings(n) == UNION {[1..k -> Alphabet] : k \in 0..n}
Names == Strings(MaxNameLen) \ {<<>>}
Prefixes == Strings(MaxNameLen)

\* A command-name index: the keys of a mapping, so each name at most once.
Indexes ==
  {ix \in UNION {[1..k -> Names] : k \in 0..MaxIndexLen} :
     \A i, j \in 1..Len(ix) : i # j => ix[i] # ix[j]}

\* str.startswith
startswith(name, prefix) ==
  /\ Len(prefix) <= Len(name)
  /\ SubSeq(name, 1, Len(prefix)) = prefix

\* Dictionaries().load_dictionaries(path, None), then command_name.keys():
\* the file at DictPath holds index; what loading no path does is not part
\* of this file, so both outcomes are kept.
load_dictionaries(path, index) ==
  IF path = DictPath
  THEN {[raised |-> FALSE, command_name |-> index]}
  ELSE {[raised |-> TRUE, command_name |-> <<>>],
        [raised |-> FALSE, command_name |-> <<>>]}

\* Mutant: keeps the names that contain the prefix anywhere.
complete_command_name_contains(prefix, parsed_args, index) ==
  LET r == get_dictionary_path(parsed_args)
      contains(name) ==
        \E i \in 1..(Len(name) + 1) :
          /\ i + Len(prefix) - 1 <= Len(name)
          /\ SubSeq(name, i, i + Len(prefix) - 1) = prefix
  IN IF r.raised
     THEN {[raised |-> FALSE, warned |-> TRUE, loads |-> <<>>, names |-> <<>>,
            log |-> <<[input |-> parsed_args, raised |-> TRUE, value |-> None]>>]}
     ELSE {[raised |-> lo.raised, warned |-> FALSE, loads |-> <<r.value>>,
            names |-> SelectSeq(lo.command_name, contains),
            log |-> <<[input |-> parsed_args, raised |-> FALSE, value |-> r.value]>>]
           : lo \in load_dictionaries(r.value, index)}

\* The outcomes of complete_command_name(prefix, parsed_args).
complete_command_name(prefix, parsed_args, index) ==
  LET r == get_dictionary_path(parsed_args)
  IN IF r.raised
     THEN {[raised |-> FALSE, warned |-> TRUE, loads |-> <<>>, names |-> <<>>,
            log |-> <<[input |-> parsed_args, raised |-> TRUE, value |-> None]>>]}
     ELSE {[raised |-> lo.raised, warned |-> FALSE, loads |-> <<r.value>>,
            names |-> SelectSeq(lo.command_name, LAMBDA name : startswith(name, prefix)),
            log |-> <<[input |-> parsed_args, raised |-> FALSE, value |-> r.value]>>]
           : lo \in load_dictionaries(r.value, index)}

----------------------------------------------------------------------------
(* State of one process invocation *)

VARIABLES
  pc,              \* "create_parser", "autocomplete", "parse_args", "call_function", "exit"
  completing,      \* the shell asked for completions (argcomplete is active)
  regOrder,        \* order in which create_parser injects the subcommands
  retrievalArgs,   \* RetrievalArgumentsParser(...).get_arguments()
  cwdDictionary,   \* the dictionary in the working directory, or None
  argv,            \* the command line: [subcommand, given]
  prefix,          \* the text being completed
  dictIndex,       \* the command-name index of the dictionary file at DictPath
  subparserTable,  \* subcommand name -> [specifiers, defaults]
  parsed,          \* the namespace parser.parse_args returned
  args,            \* the namespace after validation
  helpPrinted, errorMsg, exitStatus,
  events,          \* the validate / execute steps, in order
  resolveLog,      \* the calls of get_dictionary_path: [input, raised, value]
  imported,        \* the business-logic modules imported
  handlerCalls,    \* the handle_arguments calls: [handler, args]
  warned, loadCalls, completions, completerRaised

vars ==
  <<pc, completing, regOrder, retrievalArgs, cwdDictionary, argv, prefix,
    dictIndex, subparserTable, parsed, args, helpPrinted, errorMsg, exitStatus,
    events, resolveLog, imported, handlerCalls, warned, loadCalls, completions,
    completerRaised>>

inputs == <<completing, regOrder, retrievalArgs, cwdDictionary, argv, prefix, dictIndex>>

DictionaryChoices ==
  {EmptyNamespace, "dictionary" :> None, "dictionary" :> DictPath}

CommonNamespaces ==
  {("is_printing_list" :> l) @@ ("config" :> c) @@ d :
     l \in BOOLEAN, c \in {None, UserConfig}, d \in DictionaryChoices}

\* The command lines of a normal invocation.
MainArgvs ==
  {[subcommand |-> None, given |-> EmptyNamespace]}
  \cup {[subcommand |-> s, given |-> g] : s \in {"channels", "events"}, g \in CommonNamespaces}
  \cup {[subcommand |-> "command-send", given |-> ("command_name" :> n) @@ g] :
          n \in {None, "", "CMD.NAME"}, g \in CommonNamespaces}

\* What the shell has parsed so far when it asks to complete command-name.
CompletionArgvs ==
  {[subcommand |-> "command-send", given |-> d] : d \in DictionaryChoices}

Init ==
  /\ pc = "create_parser"
  /\ completing \in BOOLEAN
  /\ cwdDictionary \in {None, CwdDictPath}
  /\ IF completing
     THEN /\ regOrder = SourceOrder
          /\ retrievalArgs = CanonicalRetrieval
          /\ argv \in CompletionArgvs
          /\ prefix \in Prefixes
          /\ dictIndex \in Indexes
     ELSE /\ regOrder \in Orders
          /\ retrievalArgs \in RetrievalGroups
          /\ argv \in MainArgvs
          /\ prefix = <<>>
          /\ dictIndex = <<>>
  /\ subparserTable = EmptyNamespace
  /\ parsed = EmptyNamespace
  /\ args = EmptyNamespace
  /\ helpPrinted = FALSE
  /\ errorMsg = ""
  /\ exitStatus = 0
  /\ events = <<>>
  /\ resolveLog = <<>>
  /\ imported = {}
  /\ handlerCalls = <<>>
  /\ warned = FALSE
  /\ loadCalls = <<>>
  /\ completions = <<>>
  /\ completerRaised = FALSE

Registered == Cardinality(DOMAIN subparserTable)

\* create_parser: one cls.inject_subparser(subparser_root) call.
InjectSubparser ==
  /\ pc = "create_parser"
  /\ Registered < 3
  /\ subparserTable' = inject_subparser(regOrder[Registered + 1], subparserTable, retrievalArgs)
  /\ pc' = IF Registered = 2 THEN "autocomplete" ELSE "create_parser"
  /\ UNCHANGED <<inputs, parsed, args, helpPrinted, errorMsg, exitStatus, events,
                 resolveLog, imported, handlerCalls, warned, loadCalls, completions,
                 completerRaised>>

\* argcomplete.autocomplete(parser) when the shell asked for completions:
\* runs the completer of command-name and ends the process.
AutocompleteComplete ==
  /\ pc = "autocomplete"
  /\ completing
  /\ \E r \in complete_command_name(prefix, argv.given, dictIndex) :
       /\ completions' = r.names
       /\ warned' = r.warned
       /\ loadCalls' = r.loads
       /\ completerRaised' = r.raised
       /\ resolveLog' = resolveLog \o r.log
       /\ exitStatus' = IF r.raised THEN 1 ELSE 0
  /\ pc' = "exit"
  /\ UNCHANGED <<inputs, subparserTable, parsed, args, helpPrinted, errorMsg, events,
                 imported, handlerCalls>>

\* argcomplete.autocomplete(parser) otherwise: returns at once.
AutocompleteReturn ==
  /\ pc = "autocomplete"
  /\ ~completing
  /\ pc' = "parse_args"
  /\ UNCHANGED <<inputs, subparserTable, parsed, args, helpPrinted, errorMsg, exitStatus,
                 events, resolveLog, imported, handlerCalls, warned, loadCalls,
                 completions, completerRaised>>

\* args_ns = parse_args(parser, sys.argv[1:])
ParseArgs ==
  /\ pc = "parse_args"
  /\ LET r == parse_args(subparserTable, argv)
     IN /\ parsed' = r.parsed
        /\ args' = r.args
        /\ helpPrinted' = r.help
        /\ errorMsg' = r.error
        /\ exitStatus' = r.status
        /\ events' = events \o r.events
        /\ resolveLog' = resolveLog \o r.log
        /\ pc' = IF r.exits THEN "exit" ELSE "call_function"
  /\ UNCHANGED <<inputs, subparserTable, imported, handlerCalls, warned, loadCalls,
                 completions, completerRaised>>

\* function = args_ns.func; function(args_ns)
CallFunction ==
  /\ pc = "call_function"
  /\ LET f == command_func(args["func"])
     IN /\ imported' = imported \cup {f.module}
        /\ handlerCalls' = Append(handlerCalls, [handler |-> f.handler, args |-> args])
  /\ events' = Append(events, "execute")
  /\ pc' = "exit"
  /\ exitStatus' = 0
  /\ UNCHANGED <<inputs, subparserTable, parsed, args, helpPrinted, errorMsg, resolveLog,
                 warned, loadCalls, completions, completerRaised>>

Next ==
  \/ InjectSubparser
  \/ AutocompleteComplete
  \/ AutocompleteReturn
  \/ ParseArgs
  \/ CallFunction

Spec == Init /\ [][Next]_vars

----------------------------------------------------------------------------
(* Properties *)

Has(seq, x) == \E i \in 1..Len(seq) : seq[i] = x

\* The namespace carries no explicit dictionary path: attribute missing or unset.
NoDictionary(ns) == "dictionary" \notin DOMAIN ns \/ ns["dictionary"] = None

ParseArgsDone == ~completing /\ pc \in {"call_function", "exit"}

MissingRequiredArgument == "One of command-name or --list is required"

\* C1: command-send validation reports the missing-required-argument error and
\* exits, before any dictionary resolution, exactly when command_name is
\* absent/empty and the list flag is false; otherwise it raises no such error
\* and its result is the default dictionary validation's result.
C1_CommandSendValidation ==
  (ParseArgsDone /\ argv.subcommand = "command-send") =>
    LET missing == ~Truthy(parsed["command_name"]) /\ ~parsed["is_printing_list"]
        default == Base_validate_args(parsed)
    IN IF missing
       THEN /\ pc = "exit"
            /\ exitStatus # 0
            /\ errorMsg = MissingRequiredArgument
            /\ resolveLog = <<>>
            /\ events = <<"validate">>
            /\ handlerCalls = <<>>
       ELSE /\ errorMsg # MissingRequiredArgument
            /\ errorMsg = default.error
            /\ args = default.args
            /\ resolveLog = default.log
            /\ Has(events, "validate_return") <=> ~default.exits

C1_Witness ==
  /\ ParseArgsDone
  /\ argv.subcommand = "command-send"
  /\ parsed["command_name"] = None
  /\ ~parsed["is_printing_list"]
  /\ errorMsg = MissingRequiredArgument

\* C2: the execute step starts only after the validate step has returned, and
\* a run whose validation failed ends with nonzero status with no handler
\* loaded or invoked.
C2_ValidateBeforeExecute ==
  /\ \A i \in 1..Len(events) :
       events[i] = "execute" =>
         \E j \in 1..(i - 1) : events[j] = "validate_return"
  /\ (handlerCalls # <<>> \/ imported # {}) => Has(events, "execute")
  /\ (errorMsg # "" \/ (Has(events, "validate") /\ ~Has(events, "validate_return"))) =>
       /\ pc = "exit"
       /\ exitStatus # 0
       /\ ~Has(events, "execute")
       /\ handlerCalls = <<>>
       /\ imported = {}

C2_Witness == events = <<"validate", "validate_return", "execute">>

\* C3: without a subcommand parse_args prints the help and exits with status
\* 0; no validate step, no dictionary resolution and no handler run.
C3_NoSubcommandHelp ==
  (ParseArgsDone /\ argv.subcommand = None) =>
    /\ pc = "exit"
    /\ helpPrinted
    /\ exitStatus = 0
    /\ errorMsg = ""
    /\ events = <<>>
    /\ resolveLog = <<>>
    /\ handlerCalls = <<>>
    /\ imported = {}

C3_Witness == ParseArgsDone /\ argv.subcommand = None /\ helpPrinted

\* C4 (as claimed): get_dictionary_path fails when no dictionary path is given
\* and the working directory holds none, never returns an absent path then,
\* and returns an explicit path unchanged.
C4_ResolverFailsWithoutDictionary ==
  \A i \in 1..Len(resolveLog) :
    LET e == resolveLog[i]
    IN /\ (NoDictionary(e.input) /\ cwdDictionary = None) => e.raised
       /\ ~NoDictionary(e.input) => (~e.raised /\ e.value = e.input["dictionary"])

\* C5 (as claimed): with no dictionary given and none resolvable the run ends
\* through the parser's error path without a handler call; a handler always
\* receives a resolved, non-empty dictionary path.
C5_HandlerGetsDictionary ==
  /\ (/\ ParseArgsDone
      /\ argv.subcommand # None
      /\ errorMsg # MissingRequiredArgument
      /\ NoDictionary(argv.given)
      /\ cwdDictionary = None) =>
       (pc = "exit" /\ exitStatus # 0 /\ errorMsg # "" /\ handlerCalls = <<>>)
  /\ \A i \in 1..Len(handlerCalls) :
       /\ "dictionary" \in DOMAIN handlerCalls[i].args
       /\ Truthy(handlerCalls[i].args["dictionary"])

\* C6: a validate step that returns leaves every parsed attribute as it was,
\* adds none, and may change only a dictionary path that was not given.
C6_ValidateFrame ==
  Has(events, "validate_return") =>
    /\ \A a \in DOMAIN parsed :
         /\ a \in DOMAIN args
         /\ args[a] = parsed[a] \/ (a = "dictionary" /\ parsed[a] = None)
    /\ DOMAIN args \subseteq DOMAIN parsed \cup {"dictionary"}

C6_Witness ==
  /\ Has(events, "validate_return")
  /\ "dictionary" \in DOMAIN parsed
  /\ parsed["dictionary"] = DictPath
  /\ parsed["config"] = UserConfig

\* A specifier that carries the -t or the --timeout flag.
C7_IsTimeoutSpecifier(arg) == \E i \in 1..Len(arg) : arg[i] \in {"-t", "--timeout"}

\* C7: the command-send parser holds no timeout specifier and every other
\* retrieval specifier; the channels and events parsers hold every retrieval
\* specifier, the timeout one included.
C7_TimeoutExcludedForCommandSend ==
  /\ "command-send" \in DOMAIN subparserTable =>
       /\ \A s \in subparserTable["command-send"].specifiers : ~C7_IsTimeoutSpecifier(s)
       /\ \A s \in retrievalArgs :
            ~C7_IsTimeoutSpecifier(s) => s \in subparserTable["command-send"].specifiers
  /\ \A n \in {"channels", "events"} \cap DOMAIN subparserTable :
       retrievalArgs \subseteq subparserTable[n].specifiers

C7_Witness ==
  /\ Registered = 3
  /\ \E s \in retrievalArgs : C7_IsTimeoutSpecifier(s)
  /\ \E s \in retrievalArgs : ~C7_IsTimeoutSpecifier(s)

C8_HasPrefix(name, p) ==
  Len(p) <= Len(name) /\ \A i \in 1..Len(p) : name[i] = p[i]

\* out lists exactly the entries of index that begin with p, in index order.
C8_IsPrefixFilter(out, index, p) ==
  \E f \in [1..Len(out) -> 1..Len(index)] :
    /\ \A i, j \in 1..Len(out) : i < j => f[i] < f[j]
    /\ \A i \in 1..Len(out) : out[i] = index[f[i]]
    /\ \A k \in 1..Len(index) :
         C8_HasPrefix(index[k], p) <=> \E i \in 1..Len(out) : f[i] = k

\* C8: when get_dictionary_path yields a dictionary path, complete_command_name
\* loads that dictionary and returns exactly the names of its command-name
\* index that begin with the prefix, each once, in the index's order.
C8_CompletionIsPrefixFilter ==
  (/\ completing
   /\ pc = "exit"
   /\ ~resolveLog[1].raised
   /\ resolveLog[1].value # None) =>
    /\ ~completerRaised
    /\ ~warned
    /\ loadCalls = <<resolveLog[1].value>>
    /\ C8_IsPrefixFilter(completions, dictIndex, prefix)

C8_Witness ==
  /\ completing
  /\ pc = "exit"
  /\ loadCalls = <<DictPath>>
  /\ Len(prefix) >= 1
  /\ Len(dictIndex) = 2
  /\ Len(completions) = 1

\* C9 (as claimed): when the dictionary cannot be resolved the completer warns
\* and returns the empty sequence, never raising and never loading a
\* dictionary from an unresolved path.
C9_CompletionToleratesNoDictionary ==
  (/\ completing
   /\ pc = "exit"
   /\ NoDictionary(argv.given)
   /\ cwdDictionary = None) =>
    /\ warned
    /\ completions = <<>>
    /\ ~completerRaised
    /\ ~Has(loadCalls, None)

C10_Handler(subcommand) ==
  CASE subcommand = "channels" -> "ChannelsCommand"
    [] subcommand = "command-send" -> "CommandSendCommand"
    [] subcommand = "events" -> "EventsCommand"

C10_Module(subcommand) ==
  CASE subcommand = "channels" -> "fprime_gds.common.gds_cli.channels"
    [] subcommand = "command-send" -> "fprime_gds.common.gds_cli.command_send"
    [] subcommand = "events" -> "fprime_gds.common.gds_cli.events"

\* C10: a run that passes validation ends with exactly one handler call, of
\* the selected subcommand's handler, with the namespace validate returned,
\* and only that handler's module imported, for every registration order; no
\* other run imports or calls a handler.
C10_SelectedHandlerOnce ==
  /\ (pc = "exit" /\ Has(events, "validate_return")) =>
       /\ Len(handlerCalls) = 1
       /\ handlerCalls[1].handler = C10_Handler(argv.subcommand)
       /\ handlerCalls[1].args = args
       /\ imported = {C10_Module(argv.subcommand)}
  /\ (pc # "exit" \/ ~Has(events, "validate_return")) =>
       (handlerCalls = <<>> /\ imported = {})

C10_Witness ==
  /\ pc = "exit"
  /\ Len(handlerCalls) = 1
  /\ argv.subcommand = "channels"
  /\ regOrder[3] = "ChannelsSubparserInjector"

====
